---- MODULE Spec2Model ----
(***************************************************************************)
(* speedy-proxy: the shipment-creation pipeline of src/server.js           *)
(* (normalizeShipmentBody -> enrichRecipientSiteIdIfNeeded/resolveSiteId   *)
(* -> speedyPost("shipment/")) and the plain pass-through handler of       *)
(* src/unnamed/part_000, as state machines over one HTTP request.          *)
(*                                                                         *)
(* JavaScript values are tagged records:                                   *)
(*   [t |-> "undefined"], [t |-> "null"], [t |-> "NaN"],                   *)
(*   [t |-> "boolean", v |-> BOOLEAN], [t |-> "number", v |-> Int],        *)
(*   [t |-> "string", v |-> sequence of characters],                       *)
(*   [t |-> "object", v |-> function from key to value],                   *)
(*   [t |-> "array", v |-> sequence of values], with a field p, a function  *)
(*   from key to value, when the array has been given named properties.    *)
(* A character is a one-token string.  A Cyrillic letter is the token "c"  *)
(* plus its Latin transliteration ("cg" is U+0433, "cya" is U+044F), its   *)
(* upper-case form the same in capitals ("CG" is U+0413, "CYA" is U+042F). *)
(* Numbers are integers.                                                   *)
(***************************************************************************)
EXTENDS Integers, Sequences, FiniteSets, TLC

\* ---------------------------------------------------------------- bounds
\* longest candidate list a location-search response carries
MaxSites == 2

\* ------------------------------------------------------------- JS values
Undef == [t |-> "undefined"]
Null == [t |-> "null"]
NaN == [t |-> "NaN"]
Bool(b) == [t |-> "boolean", v |-> b]
Num(n) == [t |-> "number", v |-> n]
Str(s) == [t |-> "string", v |-> s]
Obj(f) == [t |-> "object", v |-> f]
Arr(a) == [t |-> "array", v |-> a]
EmptyObj == Obj([k \in {} |-> Undef])

\* JS ToBoolean
Truthy(x) ==
  CASE x.t \in {"undefined", "null", "NaN"} -> FALSE
    [] x.t = "boolean" -> x.v
    [] x.t = "number" -> x.v # 0
    [] x.t = "string" -> Len(x.v) > 0
    [] OTHER -> TRUE

\* a || b
Or(a, b) == IF Truthy(a) THEN a ELSE b

\* a ?? b
Coalesce(a, b) == IF a.t \in {"undefined", "null"} THEN b ELSE a

\* an array with named (non-index) properties of its own
ArrWith(a, props) == [t |-> "array", v |-> a, p |-> props]

\* o.k and o?.k: the property of an object, or the named property of an
\* array, undefined where there is none
Get(o, k) ==
  IF o.t = "object" /\ k \in DOMAIN o.v THEN o.v[k]
  ELSE IF o.t = "array" /\ "p" \in DOMAIN o /\ k \in DOMAIN o.p THEN o.p[k]
  ELSE Undef

Has(o, k) == o.t = "object" /\ k \in DOMAIN o.v

\* o.k = x
Put(o, k, x) == Obj([j \in (DOMAIN o.v) \cup {k} |-> IF j = k THEN x ELSE o.v[j]])

\* delete o.k
Delete(o, k) == Obj([j \in (DOMAIN o.v) \ {k} |-> o.v[j]])

\* ------------------------------------------------------------ characters
LatinLower == <<"a", "b", "c", "d", "e", "f", "g", "h", "i", "j", "k", "l",
                "m", "n", "o", "p", "q", "r", "s", "t", "u", "v", "w", "x", "y", "z">>
LatinUpper == <<"A", "B", "C", "D", "E", "F", "G", "H", "I", "J", "K", "L",
                "M", "N", "O", "P", "Q", "R", "S", "T", "U", "V", "W", "X", "Y", "Z">>
\* the Cyrillic letters the inputs use: "cg" is U+0433, "CG" is U+0413, ...
CyrillicLower == <<"ca", "cb", "cd", "ce", "cg", "cl", "cm", "co", "cr", "cs", "cu", "cya">>
CyrillicUpper == <<"CA", "CB", "CD", "CE", "CG", "CL", "CM", "CO", "CR", "CS", "CU", "CYA">>
LowerLetters == LatinLower \o CyrillicLower
UpperLetters == LatinUpper \o CyrillicUpper
Digits == <<"0", "1", "2", "3", "4", "5", "6", "7", "8", "9">>

IndexOf(seq, c) == IF \E i \in 1..Len(seq) : seq[i] = c
                   THEN CHOOSE i \in 1..Len(seq) : seq[i] = c
                   ELSE 0

UpperChar(c) == IF IndexOf(LowerLetters, c) > 0 THEN UpperLetters[IndexOf(LowerLetters, c)] ELSE c
LowerChar(c) == IF IndexOf(UpperLetters, c) > 0 THEN LowerLetters[IndexOf(UpperLetters, c)] ELSE c
IsSpace(c) == c = " "

RECURSIVE MapChars(_, _)
MapChars(s, up) ==
  IF s = <<>> THEN <<>>
  ELSE <<IF up THEN UpperChar(Head(s)) ELSE LowerChar(Head(s))>> \o MapChars(Tail(s), up)

\* String.prototype.toUpperCase / toLowerCase
toUpperCase(s) == MapChars(s, TRUE)
toLowerCase(s) == MapChars(s, FALSE)

RECURSIVE TrimStart(_)
TrimStart(s) == IF s # <<>> /\ IsSpace(Head(s)) THEN TrimStart(Tail(s)) ELSE s

RECURSIVE TrimEnd(_)
TrimEnd(s) ==
  IF s # <<>> /\ IsSpace(s[Len(s)]) THEN TrimEnd(SubSeq(s, 1, Len(s) - 1)) ELSE s

\* String.prototype.trim
Trim(s) == TrimEnd(TrimStart(s))

\* String.prototype.startsWith
StartsWith(s, p) == Len(p) <= Len(s) /\ SubSeq(s, 1, Len(p)) = p

\* ------------------------------------------------- String(x) and Number(s)
RECURSIVE NatToStr(_)
NatToStr(n) == IF n < 10 THEN <<Digits[n + 1]>> ELSE NatToStr(n \div 10) \o <<Digits[(n % 10) + 1]>>

IntToStr(n) == IF n < 0 THEN <<"-">> \o NatToStr(0 - n) ELSE NatToStr(n)

\* String(x); an array is outside the inputs this is applied to
ToStr(x) ==
  CASE x.t = "string" -> x.v
    [] x.t = "number" -> IntToStr(x.v)
    [] x.t = "boolean" -> IF x.v THEN <<"t", "r", "u", "e">> ELSE <<"f", "a", "l", "s", "e">>
    [] x.t = "undefined" -> <<"u", "n", "d", "e", "f", "i", "n", "e", "d">>
    [] x.t = "null" -> <<"n", "u", "l", "l">>
    [] x.t = "NaN" -> <<"N", "a", "N">>
    [] x.t = "array" -> <<>>
    [] OTHER -> <<"[", "o", "b", "j", "e", "c", "t", " ", "O", "b", "j", "e", "c", "t", "]">>

AllDigits(s) == \A i \in 1..Len(s) : IndexOf(Digits, s[i]) > 0

RECURSIVE DigitsToNat(_)
DigitsToNat(s) ==
  IF s = <<>> THEN 0 ELSE 10 * DigitsToNat(SubSeq(s, 1, Len(s) - 1)) + (IndexOf(Digits, s[Len(s)]) - 1)

\* Number(s) of an already trimmed string: the empty string is 0, an
\* optionally signed run of decimal digits is its value, anything else NaN
\* (fractions, exponents and radix prefixes are outside the inputs).
ToNumber(s) ==
  LET signed == s # <<>> /\ Head(s) \in {"-", "+"}
      mag == IF signed THEN Tail(s) ELSE s
  IN  IF s = <<>> THEN Num(0)
      ELSE IF mag # <<>> /\ AllDigits(mag)
           THEN Num(IF Head(s) = "-" THEN 0 - DigitsToNat(mag) ELSE DigitsToNat(mag))
           ELSE NaN

\* ------------------------------------------------------------------ UTILS
\* String(x ?? "").trim()
safeStr(x) == Trim(ToStr(Coalesce(x, Str(<<>>))))

\* Number(String(x ?? "").trim()), 0 unless finite; the result is an integer
toInt(x) ==
  LET n == ToNumber(safeStr(x)) IN IF n.t = "number" THEN n.v ELSE 0

\* s.replace(/^гр\.\s*/i, "")
StripGr(s) ==
  IF Len(s) >= 3 /\ LowerChar(s[1]) = "cg" /\ LowerChar(s[2]) = "cr" /\ s[3] = "."
  THEN TrimStart(SubSeq(s, 4, Len(s)))
  ELSE s

\* s.replace(/^град\s+/i, "")
StripGrad(s) ==
  IF /\ Len(s) >= 5
     /\ LowerChar(s[1]) = "cg" /\ LowerChar(s[2]) = "cr"
     /\ LowerChar(s[3]) = "ca" /\ LowerChar(s[4]) = "cd"
     /\ IsSpace(s[5])
  THEN TrimStart(SubSeq(s, 5, Len(s)))
  ELSE s

cleanCityName(name) == Trim(StripGrad(StripGr(safeStr(name))))

\* obj?.id ?? obj?.siteId ?? obj?.site?.id, then Number(...) or 0
pickSiteId(obj) ==
  LET v == Coalesce(Coalesce(Get(obj, "id"), Get(obj, "siteId")), Get(Get(obj, "site"), "id"))
      n == ToNumber(safeStr(v))
  IN  IF n.t = "number" THEN n.v ELSE 0

extractSitesList(res) ==
  IF res.t = "array" THEN res.v
  ELSE IF Get(res, "sites").t = "array" THEN Get(res, "sites").v
  ELSE IF Get(res, "result").t = "array" THEN Get(res, "result").v
  ELSE IF Get(res, "data").t = "array" THEN Get(res, "data").v
  ELSE <<>>

SENDER == <<"S", "E", "N", "D", "E", "R">>
RECIPIENT == <<"R", "E", "C", "I", "P", "I", "E", "N", "T">>
THIRD_PARTY == <<"T", "H", "I", "R", "D", "_", "P", "A", "R", "T", "Y">>
RECEIVER == <<"R", "E", "C", "E", "I", "V", "E", "R">>
CONTRACT == <<"C", "O", "N", "T", "R", "A", "C", "T">>
CLIENT == <<"C", "L", "I", "E", "N", "T">>
CONTRACT_CLIENT == CONTRACT \o <<"_">> \o CLIENT
SENDER_CLIENT == SENDER \o <<"_">> \o CLIENT

normalizeCourierServicePayer(x) ==
  LET v == toUpperCase(safeStr(x))
  IN  IF v = <<>> THEN SENDER
      ELSE IF v \in {SENDER, RECIPIENT, THIRD_PARTY} THEN v
      ELSE IF v \in {CONTRACT_CLIENT, CLIENT, CONTRACT, SENDER_CLIENT} THEN SENDER
      ELSE IF v = RECEIVER THEN RECIPIENT
      ELSE SENDER


\* ---------------------------------------------------------- NORMALIZATION
DEFAULT_LANG == <<"B", "G">>
EmDash == <<"EMDASH">>
OnlineOrder == <<"O", "n", "l", "i", "n", "e", " ", "o", "r", "d", "e", "r">>
BOX == <<"B", "O", "X">>

\* a || b || c ...: the first truthy operand, else the last one
RECURSIVE OrAll(_)
OrAll(xs) == IF Len(xs) = 1 \/ Truthy(Head(xs)) THEN Head(xs) ELSE OrAll(Tail(xs))

\* Number(x) of a truthy operand
JsNumber(x) ==
  CASE x.t = "number" -> x
    [] x.t = "string" -> ToNumber(Trim(x.v))
    [] x.t = "boolean" -> Num(IF x.v THEN 1 ELSE 0)
    [] OTHER -> NaN

\* a string, or undefined when it is empty: s || undefined
StrOrUndef(s) == IF s # <<>> THEN Str(s) ELSE Undef

\* payment.courierServicePayer = ... on a truthy primitive b.payment is a
\* TypeError (the file is an ES module, hence strict)
normalizeThrows(body) ==
  LET b == Or(body, EmptyObj)
  IN  Truthy(Get(b, "payment")) /\ Get(b, "payment").t \notin {"object", "array"}

\* lines 202-212 without the test on pickupOfficeId
stageDoorDeliveryAlways(r1, pickupOfficeId, addr, postCode, addrNote, cityName) ==
  Put(Put(Put(r1, "address", Obj([siteId |-> Num(IF pickSiteId(addr) # 0 THEN pickSiteId(addr)
                                                   ELSE toInt(Get(addr, "siteId"))),
                                  postCode |-> StrOrUndef(postCode),
                                  addressNote |-> StrOrUndef(addrNote)])),
          "__cityName", Str(cityName)),
      "__postCode", Str(postCode))

\* lines 202-212: a request with no office id gets the address and the
\* stashed city name and postal code
stageDoorDelivery(r1, pickupOfficeId, addr, postCode, addrNote, cityName) ==
  IF pickupOfficeId = 0
  THEN Put(Put(Put(r1, "address", Obj([siteId |-> Num(IF pickSiteId(addr) # 0 THEN pickSiteId(addr)
                                                        ELSE toInt(Get(addr, "siteId"))),
                                       postCode |-> StrOrUndef(postCode),
                                       addressNote |-> StrOrUndef(addrNote)])),
               "__cityName", Str(cityName)),
           "__postCode", Str(postCode))
  ELSE r1

normalizeShipmentBody(body) ==
  LET b == Or(body, EmptyObj)
      userName == safeStr(OrAll(<<Get(b, "userName"), Get(b, "username"), Get(b, "user"), Get(b, "UserName")>>))
      password == safeStr(OrAll(<<Get(b, "password"), Get(b, "pass"), Get(b, "Password")>>))
      lang0 == safeStr(Or(Get(b, "language"), Str(DEFAULT_LANG)))
      language == IF lang0 # <<>> THEN lang0 ELSE DEFAULT_LANG
      recipient == Or(Get(b, "recipient"), EmptyObj)
      r0 == Obj([privatePerson |-> Coalesce(Get(recipient, "privatePerson"), Bool(TRUE)),
                 clientName |-> Str(safeStr(OrAll(<<Get(recipient, "clientName"), Get(b, "receiverName"),
                                                    Get(b, "recipientName"), Str(EmDash)>>))),
                 phone1 |-> Or(Get(recipient, "phone1"),
                               IF Truthy(Get(b, "receiverPhone"))
                               THEN Obj([number |-> Str(safeStr(Get(b, "receiverPhone")))])
                               ELSE Undef)])
      pickupOfficeId == toInt(OrAll(<<Get(recipient, "pickupOfficeId"), Get(b, "pickupOfficeId"),
                                      Get(b, "officeId"), Get(b, "speedyOfficeId"),
                                      Get(b, "receiverOfficeId")>>))
      r1 == IF pickupOfficeId # 0 THEN Put(r0, "pickupOfficeId", Num(pickupOfficeId)) ELSE r0
      addr == Or(Get(recipient, "address"), EmptyObj)
      addrNote == safeStr(OrAll(<<Get(addr, "addressNote"), Get(b, "address"), Get(b, "addressNote"),
                                  Get(b, "receiverAddress"), Str(<<>>)>>))
      cityName == safeStr(OrAll(<<Get(b, "city"), Get(b, "cityName"), Get(b, "receiverCity"),
                                  Get(addr, "cityName"), Get(addr, "city"), Get(addr, "name"), Str(<<>>)>>))
      postCode == safeStr(OrAll(<<Get(b, "postCode"), Get(b, "zip"), Get(b, "receiverZip"),
                                  Get(addr, "postCode"), Get(addr, "zip"), Str(<<>>)>>))
      r == stageDoorDelivery(r1, pickupOfficeId, addr, postCode, addrNote, cityName)
      service == Or(Get(b, "service"),
                    Obj([serviceId |-> Num(IF toInt(Get(b, "serviceId")) # 0 THEN toInt(Get(b, "serviceId")) ELSE 505),
                         autoAdjustPickupDate |-> Bool(TRUE)]))
      content == Or(Get(b, "content"),
                    Obj([parcelsCount |-> Num(IF toInt(Get(b, "parcelsCount")) # 0 THEN toInt(Get(b, "parcelsCount")) ELSE 1),
                         contents |-> Str(safeStr(OrAll(<<Get(b, "contents"), Get(b, "contentDescription"), Str(OnlineOrder)>>))),
                         package |-> Str(safeStr(Or(Get(b, "package"), Str(BOX)))),
                         totalWeight |-> JsNumber(OrAll(<<Get(b, "totalWeight"), Get(b, "weight"), Num(1)>>))]))
      payment0 == Or(Get(b, "payment"), EmptyObj)
      payer == Str(normalizeCourierServicePayer(OrAll(<<Get(payment0, "courierServicePayer"),
                                                        Get(b, "courierServicePayer"), Str(SENDER)>>)))
      \* an array takes the property too, and serializes without it
      payment == IF payment0.t = "object" THEN Put(payment0, "courierServicePayer", payer)
                 ELSE ArrWith(payment0.v, [courierServicePayer |-> payer])
      \* b.payment is the object that was just written to
      raw == IF Truthy(Get(b, "payment")) THEN Put(b, "payment", payment) ELSE b
      sender == IF Truthy(Get(b, "sender"))
                THEN (IF Get(b, "sender").t = "object" THEN Get(b, "sender") ELSE EmptyObj)
                ELSE Undef
  IN  Obj([userName |-> Str(userName),
           password |-> Str(password),
           language |-> Str(language),
           sender |-> sender,
           recipient |-> r,
           service |-> service,
           content |-> content,
           payment |-> payment,
           ref1 |-> Str(safeStr(OrAll(<<Get(b, "ref1"), Get(b, "reference1"), Str(<<>>)>>))),
           ref2 |-> Str(safeStr(OrAll(<<Get(b, "ref2"), Get(b, "reference2"), Str(<<>>)>>))),
           consolidationRef |-> Str(safeStr(Or(Get(b, "consolidationRef"), Str(<<>>)))),
           __raw |-> raw])

\* JSON.stringify, as the value the peer parses: undefined properties are
\* dropped, and so are the named properties of an array; undefined array
\* elements and NaN become null
RECURSIVE JsonValue(_)
JsonValue(x) ==
  CASE x.t = "object" ->
         Obj([k \in {j \in DOMAIN x.v : x.v[j].t # "undefined"} |-> JsonValue(x.v[k])])
    [] x.t = "array" ->
         Arr([i \in 1..Len(x.v) |-> IF x.v[i].t = "undefined" THEN Null ELSE JsonValue(x.v[i])])
    [] x.t = "NaN" -> Null
    [] OTHER -> x

\* -------------------------------------------------------- SITE RESOLUTION
\* resolveSiteId, lines 107-125: the ladder of {name, postCode} attempts
resolveAttemptsDropNameOnly(cityName, postCode) ==
  LET nameRaw == cleanCityName(cityName)
      zipRaw == safeStr(postCode)
  IN  (IF nameRaw # <<>> /\ zipRaw # <<>> THEN <<[name |-> nameRaw, postCode |-> zipRaw]>> ELSE <<>>)
      \o (IF zipRaw # <<>> THEN <<[name |-> <<>>, postCode |-> zipRaw]>> ELSE <<>>)
      \o (IF nameRaw # <<>>
          THEN <<[name |-> toUpperCase(nameRaw), postCode |-> zipRaw],
                 [name |-> toLowerCase(nameRaw), postCode |-> zipRaw]>>
          ELSE <<>>)

resolveAttempts(cityName, postCode) ==
  LET nameRaw == cleanCityName(cityName)
      zipRaw == safeStr(postCode)
  IN  (IF nameRaw # <<>> /\ zipRaw # <<>> THEN <<[name |-> nameRaw, postCode |-> zipRaw]>> ELSE <<>>)
      \o (IF nameRaw # <<>> THEN <<[name |-> nameRaw, postCode |-> <<>>]>> ELSE <<>>)
      \o (IF zipRaw # <<>> THEN <<[name |-> <<>>, postCode |-> zipRaw]>> ELSE <<>>)
      \o (IF nameRaw # <<>>
          THEN <<[name |-> toUpperCase(nameRaw), postCode |-> zipRaw],
                 [name |-> toLowerCase(nameRaw), postCode |-> zipRaw]>>
          ELSE <<>>)

\* lines 130-137: the payload of one attempt
attemptPayload(norm, a) ==
  Obj([userName |-> Get(norm, "userName"),
       password |-> Get(norm, "password"),
       language |-> Or(Get(norm, "language"), Str(DEFAULT_LANG)),
       countryId |-> Num(100),
       name |-> Str(a.name),
       postCode |-> Str(a.postCode)])

\* line 148: the candidate's postal code equals or starts with zipRaw
postCodeMatches(s, zipRaw) ==
  safeStr(Get(s, "postCode")) = zipRaw \/ StartsWith(safeStr(Get(s, "postCode")), zipRaw)

\* sites.find(...): the first element that matches, else undefined
findExact(sites, zipRaw) ==
  IF \E i \in 1..Len(sites) : postCodeMatches(sites[i], zipRaw)
  THEN sites[CHOOSE i \in 1..Len(sites) :
               /\ postCodeMatches(sites[i], zipRaw)
               /\ \A j \in 1..(i - 1) : ~postCodeMatches(sites[j], zipRaw)]
  ELSE Undef

selectSiteFirstOnly(sites, zipRaw) ==
  IF Len(sites) > 0 /\ pickSiteId(sites[1]) # 0
  THEN [id |-> pickSiteId(sites[1]), chosen |-> sites[1]]
  ELSE [id |-> 0, chosen |-> Null]

\* lines 144-157: what one attempt's candidate list yields; id 0 when the
\* loop goes on to the next attempt
selectSite(sites, zipRaw) ==
  LET exact == findExact(sites, zipRaw)
  IN  IF Len(sites) = 0 THEN [id |-> 0, chosen |-> Null]
      ELSE IF zipRaw # <<>> /\ pickSiteId(exact) # 0
           THEN [id |-> pickSiteId(exact), chosen |-> exact]
      ELSE IF pickSiteId(sites[1]) # 0
           THEN [id |-> pickSiteId(sites[1]), chosen |-> sites[1]]
      ELSE [id |-> 0, chosen |-> Null]

returnsNever(id) == FALSE

\* lines 151 and 156, if (exactId) return / if (firstId) return
returnsEarly(id) == id # 0

\* ------------------------------------------------------------- enrichment
recipientOf(norm) == Get(norm, "recipient")

needsResolutionUnlessOffice(norm) ==
  ~Truthy(Get(recipientOf(norm), "pickupOfficeId"))

\* enrichRecipientSiteIdIfNeeded, lines 254-258: none of the early returns
needsResolution(norm) ==
  /\ ~Truthy(Get(recipientOf(norm), "pickupOfficeId"))
  /\ Truthy(Get(recipientOf(norm), "address"))
  /\ ~(toInt(Get(Get(recipientOf(norm), "address"), "siteId")) > 0)

\* line 260
stashedCityName(norm) == safeStr(Or(Get(recipientOf(norm), "__cityName"), Str(<<>>)))

\* line 261
stashedPostCode(norm) ==
  safeStr(OrAll(<<Get(recipientOf(norm), "__postCode"),
                  Get(Get(recipientOf(norm), "address"), "postCode"), Str(<<>>)>>))

\* lines 283-288
withResolvedSite(norm, res) ==
  LET r == recipientOf(norm)
      r2 == Delete(Delete(Put(r, "address", Put(Get(r, "address"), "siteId", Num(res.v.id.v))),
                          "__cityName"), "__postCode")
  IN  Put(Put(norm, "recipient", r2), "__siteResolution", res)

\* POST /shipment, lines 334-336
upstreamPayload(norm) == Delete(Delete(norm, "__raw"), "__siteResolution")

\* ------------------------------------------------------------ the carrier
Zip8600 == <<"8", "6", "0", "0">>
Zip9999 == <<"9", "9", "9", "9">>

\* candidate records of a location-search response
Candidates ==
  { Obj([id |-> Num(42), postCode |-> Str(Zip8600)]),
    Obj([id |-> Num(7), postCode |-> Str(Zip9999)]),
    Obj([postCode |-> Str(Zip8600)]),
    Obj([id |-> Num(-3), postCode |-> Str(Zip8600 \o <<"1">>)]) }

\* the candidate lists: up to MaxSites distinct candidates, in any order
CandidateLists ==
  UNION {{l \in [1..n -> Candidates] : \A i, j \in 1..n : l[i] = l[j] => i = j} : n \in 0..MaxSites}

\* bodies of a successful location-search call: a bare list, a list under
\* one of the accepted keys, a body with no list, a non-JSON text
LocationBodies ==
  {Arr(l) : l \in CandidateLists}
    \cup { Obj([sites |-> Arr(<<Obj([site |-> Obj([id |-> Str(<<"1", "5">>)]), postCode |-> Num(86001)])>>)]),
           Obj([result |-> Arr(<<Obj([id |-> Str(<<"x">>), siteId |-> Num(9), postCode |-> Str(Zip8600)])>>)]),
           Obj([data |-> Arr(<<>>)]),
           Str(<<"O", "K">>) }

\* bodies of a successful shipment/ call
ShipmentBodies == {Obj([id |-> Str(<<"S", "1">>)]), Str(<<"O", "K">>)}

\* a carrier call that fails: status 0 stands for a transport error (fetch
\* rejects, the error has no status), otherwise a non-2xx status and its body
CarrierFailures ==
  { [status |-> 0, raw |-> Undef],
    [status |-> 401, raw |-> Obj([error |-> Obj([message |-> Str(<<"b", "a", "d">>)])])],
    [status |-> 503, raw |-> Str(<<>>)] }

\* ------------------------------------------------------------- the client
CityYambol == <<"cg", "cr", ".", " ", "CYA", "cm", "cb", "co", "cl">>
CityRuseUpper == <<"CR", "CU", "CS", "CE">>
CityRuseLower == <<"cr", "cu", "cs", "ce">>
CityPrefixOnly == <<"CG", "cr", ".">>
CityGradRuse == <<"cg", "cr", "ca", "cd", " ", "CR", "cu", "cs", "ce">>

Cities == {<<>>, CityYambol, CityRuseUpper, CityRuseLower, CityPrefixOnly, CityGradRuse}
Zips == {<<>>, Zip8600}

User == Str(<<"u">>)
Pass == Str(<<"p">>)

Credentials ==
  { [userName |-> User, password |-> Pass],
    [username |-> User, pass |-> Pass],
    [UserName |-> User, password |-> Str(<<" ">>)],
    [user |-> User],
    [language |-> Str(<<"E", "N">>)] }

DoorDeliveries ==
  {[city |-> Str(c), postCode |-> Str(z)] : c \in Cities, z \in Zips}
    \cup { [recipient |-> Obj([address |-> Obj([id |-> Num(-3), city |-> Str(CityRuseLower),
                                                zip |-> Num(8600)])])],
           [receiverCity |-> Str(<<" ">> \o CityRuseUpper \o <<" ">>), receiverZip |-> Str(<<"8", "6">>)] }

OtherDeliveries ==
  { [officeId |-> Num(77)],
    [recipient |-> Obj([pickupOfficeId |-> Str(<<"1", "2">>),
                        address |-> Obj([siteId |-> Num(5)])])],
    [recipient |-> Obj([address |-> Obj([siteId |-> Num(5), cityName |-> Str(CityYambol)])])],
    [city |-> Str(CityYambol), zip |-> Str(Zip8600)],
    [payment |-> Str(<<"c", "o", "d">>), officeId |-> Num(77)] }

\* payer values as clients send them: in payment or at the top level, in
\* any letter case, padded, unrecognized, not a string; PayerDeliveries
\* also has a payment that is an array
PayerValues ==
  { Str(toLowerCase(CONTRACT_CLIENT)),
    Str(<<"C">> \o toLowerCase(Tail(CONTRACT)) \o <<"_", "C">> \o toLowerCase(Tail(CLIENT))),
    Str(SENDER),
    Str(toLowerCase(RECIPIENT)),
    Str(<<" ">> \o toLowerCase(RECEIVER) \o <<" ">>),
    Str(toLowerCase(THIRD_PARTY)),
    Str(<<"s", "h", "o", "p">>),
    Num(5) }

PayerDeliveries ==
  {[officeId |-> Num(77), payment |-> Obj([courierServicePayer |-> v])] : v \in PayerValues}
    \cup {[officeId |-> Num(77), courierServicePayer |-> v] : v \in PayerValues}
    \cup {[officeId |-> Num(77), payment |-> Obj([courierServicePayer |-> Str(<<>>)]),
           courierServicePayer |-> Str(toLowerCase(RECIPIENT))],
          [officeId |-> Num(77), payment |-> Arr(<<>>),
           courierServicePayer |-> Str(toLowerCase(RECIPIENT))]}

\* the request bodies express.json() hands to the handler: every delivery
\* under the plain credentials, and every credential variant
Bodies ==
  {Obj([userName |-> User, password |-> Pass] @@ d) : d \in DoorDeliveries \cup OtherDeliveries \cup PayerDeliveries}
    \cup {Obj(c @@ d) : c \in Credentials, d \in OtherDeliveries}

\* ------------------------------------------------------------------ state
VARIABLES
  requestBody, \* the body of the request as express.json() parsed it,
               \* before the handler ran
  body,        \* req.body
  pc,          \* where the handler stands: "received", "awaitLocation",
               \* "awaitResolve", "awaitEnrich", "awaitShipment", "responded"
               \* ("rejected": the handler's
               \* promise rejected and it sent nothing)
  normalized,  \* POST /shipment's normalized
  cityName,    \* enrichRecipientSiteIdIfNeeded's cityName
  postCode,    \* enrichRecipientSiteIdIfNeeded's postCode
  attempts,    \* resolveSiteId's attempts
  idx,         \* the attempt the for loop stands at (1-based)
  lastRes,     \* resolveSiteId's lastRes
  resolved,    \* what resolveSiteId returned: the value the await of line 269
               \* yields, undefined until the resolver has returned
  calls,       \* the carrier calls issued, in order, each with its outcome
  responses,   \* the HTTP responses sent to the client, in order
  other        \* the variables above of the other request in flight, while
               \* this one runs; NoRequest when there is none

vars == <<requestBody, body, pc, normalized, cityName, postCode, attempts, idx, lastRes, resolved, calls, responses, other>>

NoRequest == [pc |-> "none"]

LOCATION == "location/site/"
SHIPMENT == "shipment/"

\* a call as fetch sends it; state, status, id and empty are filled in when
\* it ends: status is the response's status (200 stands for every success
\* status, 0 for no response), id is what the candidate list yielded, empty
\* whether the list was empty
newCall(endpoint, payload) ==
  [endpoint |-> endpoint, payload |-> JsonValue(payload), state |-> "pending", status |-> 0,
   id |-> 0, empty |-> FALSE]

endLast(cs, state, status, id, empty) ==
  [cs EXCEPT ![Len(cs)] = [@ EXCEPT !.state = state, !.status = status, !.id = id, !.empty = empty]]

\* speedyPost, lines 90-100: the error thrown for a non-success status; a
\* transport error is fetch's own, with no status, raw or details.
\* Messages are kept as one token naming the message.
speedyPostError(f) ==
  IF f.status = 0
  THEN [status |-> 0, message |-> "fetch failed", raw |-> Undef, details |-> Undef]
  ELSE [status |-> f.status, message |-> "Speedy upstream error", raw |-> f.raw, details |-> Undef]

\* POST /shipment, lines 348-354: the catch block's response
errorResponse(e) ==
  [status |-> IF e.status # 0 THEN e.status ELSE 500,
   body |-> JsonValue(Obj([ok |-> Bool(FALSE),
                           error |-> Str(<<e.message>>),
                           details |-> OrAll(<<e.raw, e.details, Null>>)]))]

\* lines 263-267
missingCityError(city, zip) ==
  [status |-> 0, message |-> "Speedy DOOR: missing city/postcode for siteId resolution.",
   raw |-> Undef,
   details |-> Obj([cityName |-> Str(city), postCode |-> Str(zip)])]

attemptsArray(as) == Arr([i \in 1..Len(as) |-> Obj([name |-> Str(as[i].name), postCode |-> Str(as[i].postCode)])])

\* line 160: the resolver's return when no attempt yielded an identifier
notResolved(as, last) ==
  Obj([id |-> Num(0), chosen |-> Null, tried |-> attemptsArray(as), lastRes |-> last])

\* lines 277-281
cannotResolveError(city, zip, res) ==
  [status |-> 0, message |-> "Speedy DOOR: cannot resolve siteId",
   raw |-> Undef,
   details |-> Obj([cityName |-> Str(city), postCode |-> Str(zip), resolved |-> res])]

Init ==
  /\ body \in Bodies
  /\ requestBody = body
  /\ pc = "received"
  /\ normalized = Undef
  /\ cityName = <<>>
  /\ postCode = <<>>
  /\ attempts = <<>>
  /\ idx = 0
  /\ lastRes = Null
  /\ resolved = Undef
  /\ calls = <<>>
  /\ responses = <<>>
  /\ other = NoRequest

\* the handler ends without sending
ReplyNothing(resp) ==
  /\ responses' = responses
  /\ pc' = "responded"

Reply(resp) ==
  /\ responses' = Append(responses, resp)
  /\ pc' = "responded"

\* req.body after normalizeShipmentBody(req.body): lines 227-230 write the
\* normalized payer into b.payment, the request's own payment object when it
\* has one
bodyAfterNormalize(b0) ==
  IF Truthy(b0) THEN Get(normalizeShipmentBody(b0), "__raw") ELSE b0

\* POST /shipment (src/server.js) from its entry to where it first stops:
\* the response sent before any await (lines 326-328, or the catch block
\* for an error of normalizeShipmentBody); the await of line 331 with
\* enrichRecipientSiteIdIfNeeded returned or thrown at once; the await of
\* line 269 with resolveSiteId returned at once (no attempt to make); or
\* the first location-search call issued
PostShipment ==
  /\ pc = "received"
  /\ UNCHANGED <<requestBody, other, lastRes>>
  /\ IF normalizeThrows(body)
     THEN /\ Reply(errorResponse([status |-> 0, message |-> "TypeError", raw |-> Undef, details |-> Undef]))
          /\ UNCHANGED <<body, normalized, cityName, postCode, attempts, idx, resolved, calls>>
     ELSE LET norm == normalizeShipmentBody(body)
              city == stashedCityName(norm)
              zip == stashedPostCode(norm)
              as == resolveAttempts(Str(city), Str(zip))
          IN  /\ normalized' = norm
              /\ body' = bodyAfterNormalize(body)
              /\ IF ~Truthy(Get(norm, "userName")) \/ ~Truthy(Get(norm, "password"))
                 THEN /\ Reply([status |-> 400,
                                body |-> Obj([ok |-> Bool(FALSE),
                                              error |-> Str(<<"Missing userName/password">>)])])
                      /\ UNCHANGED <<cityName, postCode, attempts, idx, resolved, calls>>
                 ELSE IF ~needsResolution(norm)
                 THEN /\ pc' = "awaitEnrich"
                      /\ UNCHANGED <<cityName, postCode, attempts, idx, resolved, calls, responses>>
                 ELSE /\ cityName' = city
                      /\ postCode' = zip
                      /\ IF city = <<>> /\ zip = <<>>
                         THEN /\ pc' = "awaitEnrich"
                              /\ UNCHANGED <<attempts, idx, resolved, calls, responses>>
                         ELSE /\ attempts' = as
                              /\ IF Len(as) = 0
                                 THEN /\ resolved' = notResolved(as, Null)
                                      /\ pc' = "awaitResolve"
                                      /\ UNCHANGED <<idx, calls, responses>>
                                 ELSE /\ idx' = 1
                                      /\ calls' = Append(calls, newCall(LOCATION, attemptPayload(norm, as[1])))
                                      /\ pc' = "awaitLocation"
                                      /\ UNCHANGED <<resolved, responses>>

\* the await at line 269 resumes with what resolveSiteId returned: lines
\* 277-281 throw, or lines 283-289 write the site into the shipment; either
\* way enrichRecipientSiteIdIfNeeded has ended and the handler stands at its
\* await of line 331
ResolveSettles ==
  /\ pc = "awaitResolve"
  /\ normalized' = IF Truthy(Get(resolved, "id"))
                   THEN withResolvedSite(normalized, resolved)
                   ELSE normalized
  /\ pc' = "awaitEnrich"
  /\ UNCHANGED <<requestBody, other, resolved, body, cityName, postCode, attempts, idx, lastRes, calls, responses>>

\* the await at line 331 resumes. With the shipment returned as it was
\* (lines 254-258) or with the resolved site written into it (lines
\* 283-289), lines 334-339 issue the shipment/ call; with the error thrown
\* at lines 263-267 or 277-281, the catch block answers
EnrichSettles ==
  /\ pc = "awaitEnrich"
  /\ IF ~needsResolution(normalized) \/ Has(normalized, "__siteResolution")
     THEN /\ calls' = Append(calls, newCall(SHIPMENT, upstreamPayload(normalized)))
          /\ pc' = "awaitShipment"
          /\ UNCHANGED responses
     ELSE /\ Reply(errorResponse(IF cityName = <<>> /\ postCode = <<>>
                                 THEN missingCityError(cityName, postCode)
                                 ELSE cannotResolveError(cityName, postCode, resolved)))
          /\ UNCHANGED calls
  /\ UNCHANGED <<requestBody, other, resolved, body, normalized, cityName, postCode, attempts, idx, lastRes>>

\* a location-search call returns with a success status: the rest of the
\* loop body (lines 140-157), then the next attempt's call, or the
\* resolver's return (lines 151, 156, 160), which settles the await of
\* line 269
LocationReturns ==
  /\ pc = "awaitLocation"
  /\ \E res \in LocationBodies :
       LET sites == extractSitesList(res)
           sel == selectSite(sites, safeStr(Str(postCode)))
           ended == endLast(calls, "ok", 200, sel.id, Len(sites) = 0)
       IN  /\ lastRes' = res
           /\ UNCHANGED <<requestBody, other, body, normalized, cityName, postCode, attempts, responses>>
           /\ IF returnsEarly(sel.id)
              THEN /\ resolved' = Obj([id |-> Num(sel.id), chosen |-> sel.chosen,
                                       tried |-> attemptPayload(normalized, attempts[idx]),
                                       sitesCount |-> Num(Len(sites))])
                   /\ calls' = ended
                   /\ pc' = "awaitResolve"
                   /\ UNCHANGED idx
              ELSE IF idx < Len(attempts)
              THEN /\ idx' = idx + 1
                   /\ calls' = Append(ended, newCall(LOCATION, attemptPayload(normalized, attempts[idx + 1])))
                   /\ UNCHANGED <<pc, resolved>>
              ELSE /\ resolved' = notResolved(attempts, res)
                   /\ calls' = ended
                   /\ pc' = "awaitResolve"
                   /\ UNCHANGED idx

LocationFailsAndRetries ==
  /\ pc = "awaitLocation"
  /\ \E f \in CarrierFailures :
       /\ idx < Len(attempts)
       /\ idx' = idx + 1
       /\ calls' = Append(endLast(calls, "failed", f.status, 0, FALSE),
                          newCall(LOCATION, attemptPayload(normalized, attempts[idx + 1])))
       /\ UNCHANGED <<requestBody, other, resolved, body, pc, normalized, cityName, postCode, attempts, lastRes, responses>>

\* a location-search call fails: speedyPost throws (or fetch rejects), the
\* error leaves resolveSiteId and enrichRecipientSiteIdIfNeeded and reaches
\* the handler's catch
LocationFails ==
  /\ pc = "awaitLocation"
  /\ \E f \in CarrierFailures :
       /\ calls' = endLast(calls, "failed", f.status, 0, FALSE)
       /\ Reply(errorResponse(speedyPostError(f)))
  /\ UNCHANGED <<requestBody, other, resolved, body, normalized, cityName, postCode, attempts, idx, lastRes>>

\* the shipment/ call returns with a success status, lines 341-347
ShipmentReturns ==
  /\ pc = "awaitShipment"
  /\ \E data \in ShipmentBodies :
       /\ calls' = endLast(calls, "ok", 200, 0, FALSE)
       /\ Reply([status |-> 200,
                 body |-> JsonValue(Obj([ok |-> Bool(TRUE),
                                         data |-> data,
                                         debug |-> Obj([siteResolution |->
                                                          Or(Get(normalized, "__siteResolution"), Null)])]))])
  /\ UNCHANGED <<requestBody, other, resolved, body, normalized, cityName, postCode, attempts, idx, lastRes>>

\* the shipment/ call fails
ShipmentFails ==
  /\ pc = "awaitShipment"
  /\ \E f \in CarrierFailures :
       /\ calls' = endLast(calls, "failed", f.status, 0, FALSE)
       /\ Reply(errorResponse(speedyPostError(f)))
  /\ UNCHANGED <<requestBody, other, resolved, body, normalized, cityName, postCode, attempts, idx, lastRes>>

Next == PostShipment \/ ResolveSettles \/ EnrichSettles \/ LocationReturns \/ LocationFails \/ ShipmentReturns \/ ShipmentFails

Spec == Init /\ [][Next]_vars

\* --------------------------------------------- src/unnamed/part_000
\* withAuth: userName and password copied from the body (undefined where it
\* has none), language "BG", then the body's own keys over them
withAuth(b0) ==
  LET b == IF b0.t = "undefined" THEN EmptyObj ELSE b0
      own == IF b.t = "object" THEN b.v ELSE EmptyObj.v
      base == [userName |-> Or(Get(b, "userName"), Get(b, "userName")),
               password |-> Or(Get(b, "password"), Get(b, "password")),
               language |-> Str(DEFAULT_LANG)]
  IN  Obj(own @@ base)

\* speedyPost of part_000: the outcome record of a call that got a response;
\* json is the parsed body, null for a body that is no JSON; raw, the body's
\* text, is named by the value it parses to
speedyPostOutcome(status, data) ==
  Obj([ok |-> Bool(status >= 200 /\ status <= 299),
       status |-> Num(status),
       json |-> IF data.t = "string" THEN Null ELSE data,
       raw |-> Obj([text |-> data])])

\* POST /shipment of part_000 up to its await: the body goes to the carrier
\* as it came
PassThroughShipment ==
  /\ pc = "received"
  /\ calls' = Append(calls, newCall("/shipment/", withAuth(body)))
  /\ pc' = "awaitShipment"
  /\ UNCHANGED <<requestBody, other, resolved, body, normalized, cityName, postCode, attempts, idx, lastRes, responses>>

\* the call returns with a success status: res.json(r.json)
PassThroughReturns ==
  /\ pc = "awaitShipment"
  /\ \E data \in ShipmentBodies :
       /\ calls' = endLast(calls, "ok", 200, 0, FALSE)
       /\ Reply([status |-> 200, body |-> JsonValue(Get(speedyPostOutcome(200, data), "json"))])
  /\ UNCHANGED <<requestBody, other, resolved, body, normalized, cityName, postCode, attempts, idx, lastRes>>

\* the call returns with a non-success status: res.status(500).json(r)
PassThroughRejected ==
  /\ pc = "awaitShipment"
  /\ \E f \in CarrierFailures :
       /\ f.status # 0
       /\ calls' = endLast(calls, "failed", f.status, 0, FALSE)
       /\ Reply([status |-> 500, body |-> JsonValue(speedyPostOutcome(f.status, f.raw))])
  /\ UNCHANGED <<requestBody, other, resolved, body, normalized, cityName, postCode, attempts, idx, lastRes>>

\* fetch rejects: nothing catches it, the handler's promise rejects and the
\* handler sends no response
PassThroughTransportError ==
  /\ pc = "awaitShipment"
  /\ calls' = endLast(calls, "failed", 0, 0, FALSE)
  /\ pc' = "rejected"
  /\ UNCHANGED <<requestBody, other, resolved, body, normalized, cityName, postCode, attempts, idx, lastRes, responses>>

NextPassThrough ==
  PassThroughShipment \/ PassThroughReturns \/ PassThroughRejected \/ PassThroughTransportError

SpecPassThrough == Init /\ [][NextPassThrough]_vars

\* ----------------------------------------------------------------- claims
LocationCalls == {i \in 1..Len(calls) : calls[i].endpoint = LOCATION}
ShipmentCalls == {i \in 1..Len(calls) : calls[i].endpoint = SHIPMENT}

\* the name and postCode a location-search call carried
searchKey(i) == <<Get(calls[i].payload, "name").v, Get(calls[i].payload, "postCode").v>>

\* the k-th location-search call of the request
nthLocation(k) == CHOOSE i \in LocationCalls : Cardinality({j \in LocationCalls : j <= i}) = k

credentialsPresent ==
  /\ Truthy(Get(normalizeShipmentBody(body), "userName"))
  /\ Truthy(Get(normalizeShipmentBody(body), "password"))

\* C1: every shipment/ call issued for a door delivery (recipient with an
\* address and no pickupOfficeId) carries a recipient.address.siteId that is
\* a positive integer.
C1_DoorSiteIdPositive ==
  \A i \in ShipmentCalls :
    LET r == Get(calls[i].payload, "recipient")
        siteId == Get(Get(r, "address"), "siteId")
    IN  (Has(r, "address") /\ ~Has(r, "pickupOfficeId")) => (siteId.t = "number" /\ siteId.v > 0)

\* C2: the location-search calls of one resolution are issued one after
\* another in the order of the ladder, a call is issued only after every
\* earlier one has returned without a usable identifier, and the attempt that
\* yields a non-zero identifier is the last one, its identifier the
\* resolver's result. For "гр. Ямбол" / "8600" with [{id: 42, postCode:
\* "8600"}] returned to the first call (Ямбол + 8600), the result is 42 after
\* exactly one call.
C2_SequentialStopAtFirstUsable ==
  /\ \A i \in LocationCalls : \A j \in 1..Len(calls) :
       i < j => (calls[i].state # "pending" /\ (calls[j].endpoint = LOCATION => (calls[i].state = "ok" /\ calls[i].id = 0)))
  /\ \A k \in 1..Cardinality(LocationCalls) :
       /\ k <= Len(attempts)
       /\ searchKey(nthLocation(k)) = <<attempts[k].name, attempts[k].postCode>>
  /\ \A i \in LocationCalls :
       (calls[i].state = "ok" /\ calls[i].id # 0) =>
         /\ \A j \in LocationCalls : j <= i
         /\ pc # "awaitLocation"
         /\ Get(resolved, "id") = Num(calls[i].id)
  /\ (/\ cityName = CityYambol /\ postCode = Zip8600
      /\ Cardinality(LocationCalls) >= 1)
     => /\ searchKey(1) = <<<<"CYA", "cm", "cb", "co", "cl">>, Zip8600>>
        /\ (/\ Cardinality(LocationCalls) = 1 /\ calls[1].state = "ok"
            /\ lastRes = Arr(<<Obj([id |-> Num(42), postCode |-> Str(Zip8600)])>>))
           => /\ calls[1].id = 42
              /\ Get(resolved, "id") = Num(42)
        /\ (calls[1].state = "ok" /\ calls[1].id = 42) => Cardinality(LocationCalls) = 1

C2_Witness ==
  /\ cityName = CityYambol /\ postCode = Zip8600
  /\ lastRes = Arr(<<Obj([id |-> Num(42), postCode |-> Str(Zip8600)])>>)
  /\ Cardinality(LocationCalls) = 1
  /\ calls[1].id = 42
  /\ pc = "responded"

\* the first candidate whose postal code equals or starts with zip
firstPostalMatch(sites, zip) ==
  sites[CHOOSE i \in 1..Len(sites) :
          /\ postCodeMatches(sites[i], zip)
          /\ \A j \in 1..Len(sites) : postCodeMatches(sites[j], zip) => i <= j]

hasPostalMatch(sites, zip) == \E i \in 1..Len(sites) : postCodeMatches(sites[i], zip)

\* the identifier C3 says a non-empty candidate list yields
claimedId(sites, zip) ==
  IF zip # <<>> /\ hasPostalMatch(sites, zip)
  THEN pickSiteId(firstPostalMatch(sites, zip))
  ELSE pickSiteId(sites[1])

\* the same, the postal match preferred only when its identifier is usable
amendedId(sites, zip) ==
  IF zip # <<>> /\ hasPostalMatch(sites, zip) /\ pickSiteId(firstPostalMatch(sites, zip)) # 0
  THEN pickSiteId(firstPostalMatch(sites, zip))
  ELSE pickSiteId(sites[1])

\* the last location-search call that returned; lastRes is its response
lastReturned == CHOOSE i \in LocationCalls :
                  calls[i].state = "ok" /\ \A j \in LocationCalls : calls[j].state = "ok" => j <= i

someReturned == \E i \in LocationCalls : calls[i].state = "ok"

\* C3 (as amended): an attempt with a non-empty candidate list takes, when a
\* postal code was supplied and the first candidate whose postal code equals
\* or starts with it has a usable (non-zero) identifier, that identifier;
\* otherwise (no postal code, no matching candidate, or a match without a
\* usable identifier) it takes the identifier of the first candidate. A
\* non-zero identifier taken is the resolver's result.
C3_SelectionPrefersUsablePostalMatch ==
  (someReturned /\ Len(extractSitesList(lastRes)) > 0) =>
    /\ calls[lastReturned].id = amendedId(extractSitesList(lastRes), postCode)
    /\ calls[lastReturned].id # 0 => Get(resolved, "id") = Num(calls[lastReturned].id)

\* C3 (as claimed): with a postal code supplied, the identifier of the first
\* candidate whose postal code equals or starts with it is taken; otherwise,
\* or when no candidate matches, that of the first candidate.
C3_SelectionAsClaimed ==
  (someReturned /\ Len(extractSitesList(lastRes)) > 0) =>
    calls[lastReturned].id = claimedId(extractSitesList(lastRes), postCode)

\* the name-only attempt answered [{id: 7, postCode: "9999"}] for zip "8600"
C3_Witness ==
  /\ postCode = Zip8600
  /\ Cardinality(LocationCalls) = 2
  /\ searchKey(nthLocation(2))[2] = <<>>
  /\ lastRes = Arr(<<Obj([id |-> Num(7), postCode |-> Str(Zip9999)])>>)
  /\ calls[lastReturned].id = 7
  /\ Get(resolved, "id") = Num(7)

\* the five attempts C4 lists, for a name and a postal code
fiveAttempts(name, zip) ==
  << <<name, zip>>, <<name, <<>>>>, <<<<>>, zip>>, <<toUpperCase(name), zip>>, <<toLowerCase(name), zip>> >>

\* every location-search call that has ended returned an empty candidate list
allReturnedEmpty == \A i \in LocationCalls : calls[i].state = "pending" \/ (calls[i].state = "ok" /\ calls[i].empty)

\* what C4 says of a resolution whose calls all return an empty list: the
\* calls are the five, in order, and after the fifth the resolver has
\* returned id 0 with the list of the attempted payloads (tried: the name
\* and postCode each of them sent) and the last carrier response
exhaustsFiveAttempts(name) ==
  /\ Cardinality(LocationCalls) \in 1..5
  /\ \A k \in 1..Cardinality(LocationCalls) : searchKey(nthLocation(k)) = fiveAttempts(name, postCode)[k]
  /\ (\A i \in LocationCalls : calls[i].state = "ok") =>
       /\ Cardinality(LocationCalls) = 5
       /\ ShipmentCalls = {}
       /\ pc \in {"awaitResolve", "awaitEnrich", "responded"}
       /\ Get(resolved, "id") = Num(0)
       /\ Get(resolved, "tried") =
            Arr([k \in 1..5 |-> Obj([name |-> Str(fiveAttempts(name, postCode)[k][1]),
                                     postCode |-> Str(fiveAttempts(name, postCode)[k][2])])])
       /\ Get(resolved, "lastRes") = lastRes

\* C4 (as amended): when the city name left after stripping the locality
\* prefix, and the postal code, are both non-empty and every location-search
\* attempt returns an empty candidate list, exactly five calls are issued, in
\* the order (name+zip, name only, zip only, upper-case name with zip,
\* lower-case name with zip), and resolveSiteId then returns id 0 together
\* with the list of all attempted payloads and the last carrier response.
C4_ExhaustionAfterFiveAttempts ==
  (/\ LocationCalls # {} \/ pc = "responded"
   /\ cleanCityName(Str(cityName)) # <<>> /\ postCode # <<>>
   /\ allReturnedEmpty)
  => exhaustsFiveAttempts(cleanCityName(Str(cityName)))

\* C4 (as claimed): the same for every non-empty city name and postal code.
C4_ExhaustionAsClaimed ==
  (/\ LocationCalls # {} \/ pc = "responded"
   /\ cityName # <<>> /\ postCode # <<>>
   /\ allReturnedEmpty)
  => exhaustsFiveAttempts(cleanCityName(Str(cityName)))

C4_Witness ==
  /\ cleanCityName(Str(cityName)) # <<>> /\ postCode # <<>>
  /\ allReturnedEmpty
  /\ Cardinality(LocationCalls) = 5
  /\ Get(resolved, "id") = Num(0)
  /\ Len(Get(resolved, "tried").v) = 5
  /\ pc = "responded"

\* C5: no shipment/ payload carries __raw or __siteResolution, and its
\* recipient carries neither __cityName nor __postCode.
C5_NoTransientFieldsForwarded ==
  \A i \in ShipmentCalls :
    /\ ~Has(calls[i].payload, "__raw")
    /\ ~Has(calls[i].payload, "__siteResolution")
    /\ ~Has(Get(calls[i].payload, "recipient"), "__cityName")
    /\ ~Has(Get(calls[i].payload, "recipient"), "__postCode")

\* C6: no two location-search calls of one resolution carry the same name
\* and the same postCode.
C6_NoIdenticalSearch ==
  \A i, j \in LocationCalls : i # j => searchKey(i) # searchKey(j)

\* C7: a carrier call that failed is the request's last carrier call (no
\* further location-search, no shipment/ call, no second shipment/ call), and
\* the request has ended with one error response.
C7_FailedCallSurfaces ==
  \A i \in 1..Len(calls) :
    calls[i].state = "failed" =>
      /\ i = Len(calls)
      /\ pc = "responded"
      /\ Len(responses) = 1
      /\ responses[1].status >= 400
      /\ Get(responses[1].body, "ok") = Bool(FALSE)

C7_Witness ==
  /\ Cardinality(LocationCalls) = 2
  /\ calls[Len(calls)].endpoint = LOCATION
  /\ calls[Len(calls)].state = "failed"
  /\ idx < Len(attempts)
  /\ pc = "responded"

\* the delivery as normalization leaves it
isOffice == Has(Get(normalizeShipmentBody(body), "recipient"), "pickupOfficeId")
hasKnownSite ==
  LET siteId == Get(Get(Get(normalizeShipmentBody(body), "recipient"), "address"), "siteId")
  IN  siteId.t = "number" /\ siteId.v > 0

\* C8: for an office delivery, or a door delivery whose normalized address
\* has a positive siteId, the handler issues no location-search call and its
\* first carrier call is shipment/, issued once the await of the enrichment
\* has resumed; a location-search call is issued only for a door delivery
\* without a positive siteId.
C8_ResolveOnlyForUnresolvedDoor ==
  (pc # "received" /\ ~normalizeThrows(body)) =>
    LET direct == isOffice \/ hasKnownSite
    IN  /\ direct =>
             /\ LocationCalls = {}
             /\ Len(calls) >= 1 => calls[1].endpoint = SHIPMENT
             /\ (credentialsPresent /\ pc # "awaitEnrich") => Len(calls) >= 1
        /\ LocationCalls # {} => ~direct

C8_Witness ==
  /\ ~isOffice /\ hasKnownSite
  /\ stashedCityName(normalizeShipmentBody(body)) # <<>>
  /\ pc = "responded"
  /\ Len(calls) = 1
  /\ calls[1].endpoint = SHIPMENT

\* C9: an unresolved door delivery with neither city name nor postal code
\* ends, once the await of the enrichment has resumed, with one 4xx response
\* that carries diagnostic details, and no carrier call is issued.
C9_MissingCityIs4xx ==
  (/\ pc \notin {"received", "awaitEnrich"} /\ ~normalizeThrows(body) /\ credentialsPresent
   /\ needsResolution(normalizeShipmentBody(body))
   /\ stashedCityName(normalizeShipmentBody(body)) = <<>>
   /\ stashedPostCode(normalizeShipmentBody(body)) = <<>>)
  => /\ calls = <<>>
     /\ pc = "responded"
     /\ Len(responses) = 1
     /\ responses[1].status \in 400..499
     /\ Get(responses[1].body, "details") # Null

\* C10: a request whose username or password is missing under every accepted
\* alias is answered 400 and no carrier call is issued for it.
C10_MissingCredentialsFailFast ==
  (pc # "received" /\ ~credentialsPresent)
  => /\ calls = <<>>
     /\ pc = "responded"
     /\ Len(responses) = 1
     /\ responses[1].status = 400

\* the body of the carrier response that failed with this status
failureBody(status) == (CHOOSE f \in CarrierFailures : f.status = status).raw

\* a response that carries the carrier's body: as the details of the error
\* response of src/server.js, or as the raw of the outcome record that
\* src/unnamed/part_000 relays; an empty body leaves nothing to carry
carriesBody(resp, raw) ==
  \/ raw = Str(<<>>)
  \/ Get(resp.body, "details") = JsonValue(raw)
  \/ Get(resp.body, "raw") = JsonValue(Obj([text |-> raw]))

\* C11: when a carrier call made for a shipment ends with a non-success
\* status, the response the handler sends carries that same status code and
\* the carrier's body, and it is the only response (so no success response)
C11_FailureRelaysCarrierStatus ==
  \A i \in 1..Len(calls) :
    calls[i].state = "failed" /\ calls[i].status # 0 /\ pc = "responded"
      => /\ Len(responses) = 1
         /\ responses[1].status = calls[i].status
         /\ carriesBody(responses[1], failureBody(calls[i].status))

\* a recipient with exactly one of the two delivery modes
exactlyOneMode(rec) ==
  (Get(rec, "pickupOfficeId").t # "undefined") # (Get(rec, "address").t # "undefined")

\* C12: the recipient that normalizeShipmentBody yields has exactly one of
\* pickupOfficeId and address, whatever the request supplied, and so has the
\* recipient of every payload sent to shipment/
C12_ExactlyOneDeliveryMode ==
  /\ normalized # Undef => exactlyOneMode(recipientOf(normalized))
  /\ \A i \in ShipmentCalls : exactlyOneMode(Get(calls[i].payload, "recipient"))

\* a request that supplied an office id and an address has reached shipment/
C12_Witness ==
  /\ Truthy(Get(Get(body, "recipient"), "pickupOfficeId"))
  /\ Truthy(Get(Get(body, "recipient"), "address"))
  /\ ShipmentCalls # {}
  /\ Get(calls[Len(calls)].payload, "recipient") = JsonValue(recipientOf(normalized))

\* the payer value the request supplied: payment's, else the top-level one
inputPayer ==
  Or(Get(Get(requestBody, "payment"), "courierServicePayer"), Get(requestBody, "courierServicePayer"))

\* the payer value as text, trimmed, in upper case
inputPayerUpper == toUpperCase(safeStr(inputPayer))

\* the payer of the payload of a carrier call
forwardedPayer(i) == Get(Get(calls[i].payload, "payment"), "courierServicePayer")

\* C13: the payer forwarded to shipment/ is SENDER, RECIPIENT or THIRD_PARTY
\* for every payer value the request supplies; contract_client in any letter
\* case is forwarded as SENDER, and so is a value the normalizer does not know
C13_PayerIsCarrierEnum ==
  \A i \in ShipmentCalls :
    /\ forwardedPayer(i) \in {Str(SENDER), Str(RECIPIENT), Str(THIRD_PARTY)}
    /\ inputPayerUpper = CONTRACT_CLIENT => forwardedPayer(i) = Str(SENDER)
    /\ inputPayerUpper \notin {SENDER, RECIPIENT, THIRD_PARTY, RECEIVER} => forwardedPayer(i) = Str(SENDER)

\* -------------------------------------------- normalizeShipmentBody alone
ShopName == <<"S", "h", "o", "p">>

\* a drop-off point id beyond 2147483647, as its decimal digits
WideDropoff == <<"9", "9", "9", "9", "9", "9", "9", "9", "9", "9", "9">>

\* the senders clients send: by account id, by identity fields, by both, and
\* with a drop-off point id
Senders ==
  { Obj([clientId |-> Num(123456)]),
    Obj([clientId |-> Num(123456), clientName |-> Str(ShopName)]),
    Obj([clientId |-> Num(123456), privatePerson |-> Bool(FALSE), contactName |-> Str(ShopName)]),
    Obj([name |-> Str(ShopName), dropoffPointId |-> Num(55)]),
    Obj([dropoffPointId |-> Str(WideDropoff)]),
    Obj([dropoffPointId |-> Str(WideDropoff), clientName |-> Str(ShopName)]),
    Obj([dropoffPointId |-> Str(WideDropoff), clientId |-> Num(123456)]) }

SenderBodies ==
  {Obj([userName |-> User, password |-> Pass, officeId |-> Num(77), sender |-> s]) : s \in Senders}

\* the arguments of normalizeShipmentBody
NormalizeInputs == Bodies \cup SenderBodies

InitNormalize ==
  /\ body \in NormalizeInputs
  /\ requestBody = body
  /\ pc = "received"
  /\ normalized = Undef
  /\ cityName = <<>>
  /\ postCode = <<>>
  /\ attempts = <<>>
  /\ idx = 0
  /\ lastRes = Null
  /\ resolved = Undef
  /\ calls = <<>>
  /\ responses = <<>>
  /\ other = NoRequest

\* normalized = normalizeShipmentBody(req.body)
NormalizeOnce ==
  /\ pc = "received"
  /\ ~normalizeThrows(body)
  /\ normalized' = normalizeShipmentBody(body)
  /\ body' = bodyAfterNormalize(body)
  /\ pc' = "normalized"
  /\ UNCHANGED <<requestBody, other, resolved, cityName, postCode, attempts, idx, lastRes, calls, responses>>

\* the call throws at line 228
NormalizeThrows ==
  /\ pc = "received"
  /\ normalizeThrows(body)
  /\ pc' = "rejected"
  /\ UNCHANGED <<requestBody, other, resolved, body, normalized, cityName, postCode, attempts, idx, lastRes, calls, responses>>

\* the result is normalized once more
NormalizeAgain ==
  /\ pc = "normalized"
  /\ normalized' = normalizeShipmentBody(normalized)
  /\ pc' = "renormalized"
  /\ UNCHANGED <<requestBody, other, resolved, body, cityName, postCode, attempts, idx, lastRes, calls, responses>>

NextNormalize == NormalizeOnce \/ NormalizeThrows \/ NormalizeAgain

SpecNormalize == InitNormalize /\ [][NextNormalize]_vars

\* the sender of the request and of the normalized shipment
inputSender == Get(body, "sender")
normalizedSender == Get(normalized, "sender")

present(o, k) == Get(o, k).t # "undefined"

\* C14: a normalized shipment whose sender has a clientId has none of
\* clientName, name, contactName, privatePerson on its sender
C14_SenderByAccountOrIdentity ==
  pc \in {"normalized", "renormalized"} /\ present(normalizedSender, "clientId")
    => \A k \in {"clientName", "name", "contactName", "privatePerson"} : ~present(normalizedSender, k)

\* a value whose digits say more than 2147483647 (eleven digits or more)
exceedsInt32(x) ==
  LET s == safeStr(x)
  IN  AllDigits(s) /\ Len(s) > 10 /\ Head(s) # "0"

\* C15: a request whose sender.dropoffPointId exceeds 2147483647 and whose
\* sender has no clientId is normalized to a sender whose clientId is that
\* value and whose dropoffPointId is the default, 55 for a request that
\* overrides nothing in a process that configures nothing
C15_WideDropoffIsClientId ==
  pc = "normalized" /\ exceedsInt32(Get(inputSender, "dropoffPointId")) /\ ~present(inputSender, "clientId")
    => /\ safeStr(Get(normalizedSender, "clientId")) = safeStr(Get(inputSender, "dropoffPointId"))
       /\ Get(normalizedSender, "dropoffPointId") = Num(55)

\* C16: normalizing a normalized shipment yields it again: the second pass
\* moves no field. __raw, which holds each pass's own argument, is left out
\* of the comparison.
C16_NormalizeIdempotent ==
  pc = "renormalized" => Delete(normalized, "__raw") = Delete(normalizeShipmentBody(body), "__raw")

\* a value that is present and numeric
isNumeric(v) == v.t \notin {"undefined", "null"} /\ ToNumber(safeStr(v)).t = "number"

\* the identifier the claim gives a candidate: the first of id, siteId and
\* site.id that is present and numeric, 0 when none is
firstNumericId(c) ==
  IF isNumeric(Get(c, "id")) THEN toInt(Get(c, "id"))
  ELSE IF isNumeric(Get(c, "siteId")) THEN toInt(Get(c, "siteId"))
  ELSE IF isNumeric(Get(Get(c, "site"), "id")) THEN toInt(Get(Get(c, "site"), "id"))
  ELSE 0

\* C17: the identifier taken from a candidate record is the first of id,
\* siteId, site.id that is present and numeric; seen on a location-search
\* call that returned a single candidate, whose identifier the attempt yields
C17_FirstNumericKeyIsUsed ==
  someReturned /\ Len(extractSitesList(lastRes)) = 1
    => calls[lastReturned].id = firstNumericId(extractSitesList(lastRes)[1])

\* ------------------------------------------------------------ POST /print
PRINT == "print/"
PDF == "application/pdf"
OCTET == "application/octet-stream"
JSON == "application/json"
HTML == "text/html"

\* content-type header values, as sequences of tokens: none, a bare media
\* type, a media type with a parameter
ContentTypes == {<<>>, <<PDF>>, <<PDF, "; charset=binary">>, <<OCTET>>, <<JSON>>, <<JSON, "; charset=utf-8">>}

\* ct.includes("application/pdf")
includesPdf(ct) == \E i \in 1..Len(ct) : ct[i] = PDF

PdfBytes == <<"%PDF">>
ErrorText == <<"{\"error\":\"no such parcel\"}">>

\* the responses of the carrier's print/ endpoint
PrintResponses ==
  [status : {200, 404, 500}, type : ContentTypes, data : {PdfBytes, ErrorText}]

ParcelId == Str(<<"P", "1">>)
A6 == Str(<<"A", "6">>)
A4 == <<"A", "4">>

\* the bodies of POST /print
PrintBodies ==
  { Obj([userName |-> User, password |-> Pass, parcelId |-> ParcelId]),
    Obj([username |-> User, password |-> Pass, id |-> Num(7), paperSize |-> A6]),
    Obj([userName |-> User, password |-> Pass, parcelId |-> Str(<<>>), id |-> ParcelId]),
    Obj([userName |-> User, password |-> Pass, parcelId |-> Num(0)]),
    Obj([userName |-> User, password |-> Pass]),
    Obj([user |-> User, password |-> Pass, parcelId |-> ParcelId]),
    Obj([userName |-> User, pass |-> Pass, parcelId |-> ParcelId]),
    Undef }

InitPrint ==
  /\ body \in PrintBodies
  /\ requestBody = body
  /\ pc = "received"
  /\ normalized = Undef
  /\ cityName = <<>>
  /\ postCode = <<>>
  /\ attempts = <<>>
  /\ idx = 0
  /\ lastRes = Null
  /\ resolved = Undef
  /\ calls = <<>>
  /\ responses = <<>>
  /\ other = NoRequest

\* lines 361-374
printPayload(b) ==
  Obj([userName |-> Str(safeStr(Or(Get(b, "userName"), Get(b, "username")))),
       password |-> Str(safeStr(Get(b, "password"))),
       paperSize |-> Str(safeStr(Or(Get(b, "paperSize"), Str(A4)))),
       parcels |-> Arr(<<Obj([parcel |-> Obj([id |-> Str(safeStr(OrAll(<<Get(b, "parcelId"), Get(b, "id"),
                                                                        Str(<<>>)>>)))])])>>)])

\* POST /print (src/server.js) up to its await, or to the 400 it answers
\* when the user name, the password or the parcel id is missing
PostPrint ==
  /\ pc = "received"
  /\ LET b == Or(body, EmptyObj)
         payload == printPayload(b)
     IN  IF \/ ~Truthy(Get(payload, "userName"))
            \/ ~Truthy(Get(payload, "password"))
            \/ ~Truthy(Get(Get(Get(payload, "parcels").v[1], "parcel"), "id"))
         THEN /\ Reply([status |-> 400, type |-> HTML,
                        body |-> Str(<<"Missing userName/password/parcelId">>)])
              /\ UNCHANGED calls
         ELSE /\ calls' = Append(calls, newCall(PRINT, payload))
              /\ pc' = "awaitPrint"
              /\ UNCHANGED responses
  /\ UNCHANGED <<requestBody, other, resolved, body, normalized, cityName, postCode, attempts, idx, lastRes>>

\* lines 387-390: the body is sent as application/pdf
relayPdf(r) == [status |-> 200, type |-> PDF, body |-> Str(r.data)]

\* fetch resolves, lines 382-390; lastRes keeps the carrier's response
PrintReturns ==
  /\ pc = "awaitPrint"
  /\ \E r \in PrintResponses :
       /\ lastRes' = r
       /\ IF r.status # 200
          THEN /\ calls' = endLast(calls, "failed", r.status, 0, FALSE)
               /\ Reply([status |-> r.status, type |-> HTML, body |-> Str(r.data)])
          ELSE /\ calls' = endLast(calls, "ok", 200, 0, FALSE)
               /\ Reply(relayPdf(r))
  /\ UNCHANGED <<requestBody, other, resolved, body, normalized, cityName, postCode, attempts, idx>>

\* fetch rejects, lines 391-393
PrintFails ==
  /\ pc = "awaitPrint"
  /\ calls' = endLast(calls, "failed", 0, 0, FALSE)
  /\ Reply([status |-> 500, type |-> JSON,
            body |-> Obj([ok |-> Bool(FALSE), error |-> Str(<<"fetch failed">>)])])
  /\ UNCHANGED <<requestBody, other, resolved, body, normalized, cityName, postCode, attempts, idx, lastRes>>

NextPrint == PostPrint \/ PrintReturns \/ PrintFails

SpecPrint == InitPrint /\ [][NextPrint]_vars

\* speedyPostPdf of part_000: the outcome of a call that got a response
speedyPostPdfOutcome(r) ==
  IF ~includesPdf(r.type)
  THEN Obj([ok |-> Bool(FALSE), status |-> Num(r.status), raw |-> Str(r.data)])
  ELSE Obj([ok |-> Bool(TRUE), pdf |-> Str(r.data)])

\* POST /print of part_000 up to its await
PassThroughPrint ==
  /\ pc = "received"
  /\ calls' = Append(calls, newCall("/print/", withAuth(body)))
  /\ pc' = "awaitPrint"
  /\ UNCHANGED <<requestBody, other, resolved, body, normalized, cityName, postCode, attempts, idx, lastRes, responses>>

\* the call got a response, lines 77-79
PassThroughPrintReturns ==
  /\ pc = "awaitPrint"
  /\ \E r \in PrintResponses :
       LET o == speedyPostPdfOutcome(r)
       IN  /\ lastRes' = r
           /\ calls' = endLast(calls, IF r.status = 200 THEN "ok" ELSE "failed", r.status, 0, FALSE)
           /\ IF ~Truthy(Get(o, "ok"))
              THEN Reply([status |-> 500, type |-> JSON, body |-> o])
              ELSE Reply([status |-> 200, type |-> PDF, body |-> Get(o, "pdf")])
  /\ UNCHANGED <<requestBody, other, resolved, body, normalized, cityName, postCode, attempts, idx>>

\* fetch rejects: the handler's promise rejects and nothing is sent
PassThroughPrintTransportError ==
  /\ pc = "awaitPrint"
  /\ calls' = endLast(calls, "failed", 0, 0, FALSE)
  /\ pc' = "rejected"
  /\ UNCHANGED <<requestBody, other, resolved, body, normalized, cityName, postCode, attempts, idx, lastRes, responses>>

NextPassThroughPrint == PassThroughPrint \/ PassThroughPrintReturns \/ PassThroughPrintTransportError

SpecPassThroughPrint == InitPrint /\ [][NextPassThroughPrint]_vars

\* the carrier answered the print/ call and the handler answered the client
printAnswered == pc = "responded" /\ lastRes # Null /\ Len(responses) = 1

\* the response relays a PDF
relaysPdf(resp) == resp.status = 200 /\ resp.type = PDF

\* the response reports a failure and carries the text as its diagnostic
failsWith(resp, text) ==
  /\ resp.status >= 400
  /\ resp.type # PDF
  /\ resp.body = Str(text) \/ Get(resp.body, "raw") = Str(text)

\* C18: the print operation succeeds only on a carrier response whose
\* content-type is PDF or octet-stream; on any other content-type, whatever
\* the status, the caller gets a failure with the carrier's body as its
\* diagnostic text and no PDF
C18_PrintSuccessNeedsBinaryType ==
  printAnswered
    => /\ relaysPdf(responses[1]) => includesPdf(lastRes.type) \/ lastRes.type = <<OCTET>>
       /\ ~(includesPdf(lastRes.type) \/ lastRes.type = <<OCTET>>)
            => failsWith(responses[1], lastRes.data)

\* ------------------------------------------------- POST /shipment, fairly
\* Express runs the handler of a request that arrived: a request does not
\* stay "received" for ever. This is WF_vars(PostShipment), written with
\* the state predicate that PostShipment's enabling amounts to.
handlerRuns == []<>(pc # "received")

\* The continuations of the settled awaits of lines 269 and 331 run: a
\* request stays neither "awaitResolve" nor "awaitEnrich" for ever. This is
\* WF_vars(ResolveSettles) /\ WF_vars(EnrichSettles), written the same way.
awaitResumes == []<>(pc # "awaitResolve") /\ []<>(pc # "awaitEnrich")

\* the requests followed to their end: door deliveries that take five, two
\* and no location-search calls, an office delivery, a request without
\* password and one on which normalizeShipmentBody throws
FairBodies ==
  {Obj([userName |-> User, password |-> Pass] @@ d) :
     d \in { [city |-> Str(CityRuseLower), postCode |-> Str(Zip8600)],
             [city |-> Str(CityGradRuse), postCode |-> Str(<<>>)],
             [city |-> Str(<<>>), postCode |-> Str(<<>>)],
             [officeId |-> Num(77)],
             [payment |-> Str(<<"c", "o", "d">>), officeId |-> Num(77)] }}
    \cup {Obj([user |-> User, officeId |-> Num(77)])}

InitFair == Init /\ body \in FairBodies

\* Every carrier call the handler awaits returns or fails in the end (fetch
\* settles), and the event loop then runs the continuation of the await.
SpecFair ==
  /\ InitFair
  /\ [][Next]_vars
  /\ handlerRuns
  /\ awaitResumes
  /\ WF_vars(LocationReturns \/ LocationFails)
  /\ WF_vars(ShipmentReturns \/ ShipmentFails)

\* what holds of the calls of a request at every moment: at most five
\* location-search calls, at most one shipment/ call, issued after every
\* location-search call and when none of them is pending
callsInOrder ==
  /\ Cardinality(LocationCalls) <= 5
  /\ Cardinality(ShipmentCalls) <= 1
  /\ \A i \in ShipmentCalls : \A j \in LocationCalls : j < i /\ calls[j].state # "pending"

\* C20: when every carrier call returns or fails in the end, a shipment
\* request ends with exactly one HTTP response, and stays so; at every moment
\* it has made at most five location-search calls and at most one shipment/
\* call, the latter only after all its location-search calls completed, and
\* it has sent at most one response
C20_EveryRequestAnswersOnce ==
  /\ <>[](pc = "responded" /\ Len(responses) = 1)
  /\ [](callsInOrder /\ Len(responses) <= 1)

\* a request answered after five location-search calls and a shipment/ call
C20_Witness ==
  /\ pc = "responded"
  /\ Len(responses) = 1
  /\ Cardinality(LocationCalls) = 5
  /\ Cardinality(ShipmentCalls) = 1

\* ------------------------------------------------ two requests in flight
\* POST /shipment's variables are locals of one invocation of the handler
\* and of the functions it calls; the module has no binding that a request
\* writes. Two requests in flight are two sets of these variables, of which
\* the event loop runs one at a time, from one await to the next.

\* the variables of the request that runs
current ==
  [requestBody |-> requestBody, body |-> body, pc |-> pc, normalized |-> normalized, cityName |-> cityName,
   postCode |-> postCode, attempts |-> attempts, idx |-> idx, lastRes |-> lastRes,
   resolved |-> resolved,
   calls |-> calls, responses |-> responses]

\* a request as Express hands it to the handler
arrived(b) ==
  [requestBody |-> b, body |-> b, pc |-> "received", normalized |-> Undef, cityName |-> <<>>,
   postCode |-> <<>>, attempts |-> <<>>, idx |-> 0, lastRes |-> Null, resolved |-> Undef,
   calls |-> <<>>, responses |-> <<>>]

\* the event loop with the resolver's result kept in a binding declared at
\* module level: one binding that both requests read and write
YieldSharingResolved ==
  /\ other # NoRequest
  /\ other.pc # "responded"
  /\ other' = current
  /\ requestBody' = other.requestBody
  /\ body' = other.body
  /\ pc' = other.pc
  /\ normalized' = other.normalized
  /\ cityName' = other.cityName
  /\ postCode' = other.postCode
  /\ attempts' = other.attempts
  /\ idx' = other.idx
  /\ lastRes' = other.lastRes
  /\ resolved' = resolved
  /\ calls' = other.calls
  /\ responses' = other.responses

\* the request that runs stands at an await, has ended or has not begun,
\* and the event loop goes on with the other request, which has a step left
Yield ==
  /\ other # NoRequest
  /\ other.pc # "responded"
  /\ other' = current
  /\ requestBody' = other.requestBody
  /\ body' = other.body
  /\ pc' = other.pc
  /\ normalized' = other.normalized
  /\ cityName' = other.cityName
  /\ postCode' = other.postCode
  /\ attempts' = other.attempts
  /\ idx' = other.idx
  /\ lastRes' = other.lastRes
  /\ resolved' = other.resolved
  /\ calls' = other.calls
  /\ responses' = other.responses

\* two requests with different credentials and deliveries: door deliveries
\* resolved by postal code, an office delivery
FirstBodies ==
  { Obj([userName |-> User, password |-> Pass, city |-> Str(<<>>), postCode |-> Str(Zip8600)]) }

SecondBodies ==
  { Obj([username |-> Str(<<"v">>), pass |-> Str(<<"q">>), receiverZip |-> Str(Zip9999),
         courierServicePayer |-> Str(toLowerCase(RECIPIENT))]),
    Obj([username |-> Str(<<"v">>), pass |-> Str(<<"q">>), officeId |-> Num(77)]) }

InitTwo ==
  /\ body \in FirstBodies
  /\ requestBody = body
  /\ pc = "received"
  /\ normalized = Undef
  /\ cityName = <<>>
  /\ postCode = <<>>
  /\ attempts = <<>>
  /\ idx = 0
  /\ lastRes = Null
  /\ resolved = Undef
  /\ calls = <<>>
  /\ responses = <<>>
  /\ other \in {arrived(b) : b \in SecondBodies}

NextTwo == PostShipment \/ ResolveSettles \/ EnrichSettles \/ LocationReturns \/ LocationFails \/ ShipmentReturns \/ ShipmentFails \/ Yield

SpecTwo == InitTwo /\ [][NextTwo]_vars

\* The calls and the response a request makes when it is handled alone are
\* determined by its body and by the outcomes of its own calls. ownHistory
\* says, of the variables st of one request, that its calls and its
\* response are those: the k-th location-search call carries the k-th
\* attempt of its own city name and postal code under its own credentials,
\* the shipment/ call its own normalized shipment with the identifier its
\* last location-search call yielded, and the response answers its own last
\* call.
ownHistory(st) ==
  LET norm == normalizeShipmentBody(st.requestBody)
      as == resolveAttempts(Str(stashedCityName(norm)), Str(stashedPostCode(norm)))
      n == Len(st.calls)
  IN  /\ \A i \in 1..n :
           IF st.calls[i].endpoint = LOCATION
           THEN /\ i <= Len(as)
                /\ st.calls[i].payload = JsonValue(attemptPayload(norm, as[i]))
                /\ i < n => st.calls[i].state = "ok"
           ELSE /\ i = n
                /\ IF i = 1
                   THEN st.calls[i].payload = JsonValue(upstreamPayload(norm))
                   ELSE LET site == Get(st.normalized, "__siteResolution")
                        IN  /\ st.calls[i - 1].state = "ok"
                            /\ st.calls[i - 1].id # 0
                            /\ site = st.resolved
                            /\ Get(site, "id") = Num(st.calls[i - 1].id)
                            /\ Get(site, "tried") = attemptPayload(norm, as[i - 1])
                            /\ st.calls[i].payload = JsonValue(upstreamPayload(withResolvedSite(norm, site)))
      /\ Len(st.responses) = (IF st.pc = "responded" THEN 1 ELSE 0)
      /\ st.pc = "responded" /\ n > 0
           => /\ st.calls[n].state # "pending"
              /\ st.calls[n].state = "failed"
                   => st.responses[1].status = (IF st.calls[n].status # 0 THEN st.calls[n].status ELSE 500)
              /\ st.calls[n].state = "ok" /\ st.calls[n].endpoint = SHIPMENT
                   => /\ st.responses[1].status = 200
                      /\ Get(Get(st.responses[1].body, "debug"), "siteResolution")
                           = JsonValue(Or(Get(st.normalized, "__siteResolution"), Null))
              /\ st.calls[n].state = "ok" /\ st.calls[n].endpoint = LOCATION
                   => /\ st.responses[1].status = 500
                      /\ n = Len(as)

\* C19: with two shipment requests in flight, their steps interleaved at the
\* awaits in any order, the carrier calls and the response of each request
\* are those of the request handled alone: determined by its own body and
\* the outcomes of its own calls, whatever the other request did meanwhile.
\* This holds of the request that waits to begin with and of the request
\* that runs at every moment, and the variables of the request that waits
\* change only by becoming those of the request that ran until then.
C19_RequestsIndependent ==
  /\ other # NoRequest => ownHistory(other)
  /\ [](ownHistory(current))
  /\ [][other' = other \/ other' = current]_vars

\* both requests in flight, interleaved: this one's location-search call
\* has returned an identifier that lines 283-288 have not yet written, and
\* meanwhile the other request, whose call returned another identifier, has
\* written its own (line 288); neither has yet issued its shipment/ call
C19_Witness ==
  /\ other # NoRequest
  /\ body \in FirstBodies
  /\ pc = "awaitResolve"
  /\ Truthy(Get(resolved, "id"))
  /\ ~Has(normalized, "__siteResolution")
  /\ other.pc = "awaitEnrich"
  /\ Has(other.normalized, "__siteResolution")
  /\ Get(resolved, "id") # Get(Get(other.normalized, "__siteResolution"), "id")
  /\ ShipmentCalls = {}
  /\ \A i \in 1..Len(other.calls) : other.calls[i].endpoint = LOCATION

====
